---- MODULE Spec2Model ----
(***************************************************************************)
(* zvelte: the create command (main, createProject and their helpers).     *)
(*                                                                         *)
(* A path string is modelled by the sequence of its segments, i.e. the     *)
(* string split on "/":  "." is <<".">>, "./" is <<".", "">>, "/w" is      *)
(* <<"", "w">>, "/" is <<"", "">> and the empty string is <<"">>.          *)
(* The filesystem is a function from absolute locations (sequences of      *)
(* entry names, <<>> being the root) to "dir" or to a file's contents.     *)
(*                                                                         *)
(* The actions follow src/unnamed/part_000; bin/zvelte.js holds the same   *)
(* createProject with its two helpers written inline and without           *)
(* validateTargetDir.                                                      *)
(*                                                                         *)
(* Environment: git may exit with any code and leave a partial tree on     *)
(* failure; cpSync into the target and rmSync of the target's .git may     *)
(* throw. mkdtempSync and rmSync inside the staging directory, which the   *)
(* process has just created under os.tmpdir(), are taken to succeed.       *)
(* The package manager may exit with any code; isCommandInstalled may      *)
(* answer either way each time it is asked. In Spec, SpecMain, SpecConc    *)
(* and SpecRace git is taken to start; SpecLive adds the run in which it   *)
(* cannot be started ('error' event of the child process).                 *)
(*                                                                         *)
(* Spec runs createProject alone for every target string of up to MaxSegs  *)
(* segments; SpecMain runs the whole command, with and without --install;  *)
(* SpecConc runs two invocations at once; SpecRace runs createProject      *)
(* beside a process that writes to the current directory; SpecLive runs    *)
(* the whole command under fairness.                                       *)
(***************************************************************************)
EXTENDS Integers, Sequences, FiniteSets, TLC

\* Longest raw target (in segments) an invocation is started with.
MaxSegs == 2

\* Segments raw targets are built from.
Segments == {".", "..", "", "w", "full", "empty", "newapp", "config.txt"}

\* Invocations of the program. Spec starts p1 only; p2 stays idle.
Procs == {"p1", "p2"}

\* process.cwd() and os.tmpdir(), as path strings.
Cwd == <<"", "w">>
TmpDir == <<"", "tmp">>

\* Names mkdtempSync may append to the 'zvelte-' prefix.
TempNames == {"zvelte-a", "zvelte-b"}

-----------------------------------------------------------------------------
(* Path strings: node's posix path module.                                 *)

Last(s) == s[Len(s)]
Front(s) == SubSeq(s, 1, Len(s) - 1)

\* path.isAbsolute: the string starts with "/".
IsAbsolute(path) == Len(path) >= 2 /\ path[1] = ""

\* The string ends with "/".
TrailingSeparator(path) == Len(path) >= 2 /\ Last(path) = ""

\* normalizeString: drops "" and "." segments and resolves ".." segments.
RECURSIVE NormalizeFrom(_, _, _)
NormalizeFrom(path, res, allowAboveRoot) ==
  IF path = <<>> THEN res
  ELSE LET seg == Head(path)
           rest == Tail(path)
       IN  IF seg = "" \/ seg = "."
             THEN NormalizeFrom(rest, res, allowAboveRoot)
           ELSE IF seg = ".."
             THEN IF res # <<>> /\ Last(res) # ".."
                    THEN NormalizeFrom(rest, Front(res), allowAboveRoot)
                  ELSE IF allowAboveRoot
                    THEN NormalizeFrom(rest, Append(res, ".."), allowAboveRoot)
                  ELSE NormalizeFrom(rest, res, allowAboveRoot)
           ELSE NormalizeFrom(rest, Append(res, seg), allowAboveRoot)

NormalizeString(path, allowAboveRoot) == NormalizeFrom(path, <<>>, allowAboveRoot)

\* path.resolve(from, to) with `from` absolute and `to` non-empty.
PathResolve(from, to) ==
  LET joined == IF IsAbsolute(to) THEN to \o <<"">> ELSE from \o to \o <<"">>
      res == NormalizeString(joined, FALSE)
  IN  IF res = <<>> THEN <<"", "">> ELSE <<"">> \o res

\* path.normalize(path).
PathNormalize(path) ==
  IF path = <<"">> THEN <<".">>
  ELSE LET res == NormalizeString(path, ~IsAbsolute(path))
       IN  IF res = <<>>
             THEN IF IsAbsolute(path) THEN <<"", "">>
                  ELSE IF TrailingSeparator(path) THEN <<".", "">> ELSE <<".">>
           ELSE LET tail == IF TrailingSeparator(path) THEN res \o <<"">> ELSE res
                IN  IF IsAbsolute(path) THEN <<"">> \o tail ELSE tail

\* path.join(a, b) for non-empty a and b.
PathJoin(a, b) == PathNormalize(a \o b)

\* The location the operating system reaches for an absolute path string.
Loc(path) == NormalizeString(path, FALSE)

-----------------------------------------------------------------------------
(* The filesystem.                                                         *)

IsPrefix(a, b) == Len(a) <= Len(b) /\ SubSeq(b, 1, Len(a)) = a

Restrict(f, S) == [x \in S |-> f[x]]

\* fs.existsSync: false as well when a component of the path is a file.
ExistsSync(f, path) == Loc(path) \in DOMAIN f

IsDirectory(f, path) == ExistsSync(f, path) /\ f[Loc(path)] = "dir"

\* The entry names fs.readdirSync lists (top level only).
Entries(f, path) ==
  { x[Len(Loc(path)) + 1] :
      x \in { y \in DOMAIN f : Len(y) = Len(Loc(path)) + 1 /\ IsPrefix(Loc(path), y) } }

\* A set of names as the array readdirSync returns, in the order the
\* platform lists them.
RECURSIVE Listing(_)
Listing(S) ==
  IF S = {} THEN <<>>
  ELSE LET n == CHOOSE x \in S : TRUE IN <<n>> \o Listing(S \ {n})

ReaddirSync(f, path) == Listing(Entries(f, path))

\* fs.rmSync(path, {recursive: true, force: true}): no error when missing.
RmSync(f, path) == Restrict(f, { x \in DOMAIN f : ~IsPrefix(Loc(path), x) })

\* The tree below a location, keyed by relative location (<<>> is the
\* location itself).
Subtree(f, at) ==
  [r \in { SubSeq(x, Len(at) + 1, Len(x)) : x \in { y \in DOMAIN f : IsPrefix(at, y) } }
     |-> f[at \o r]]

\* A relative tree written at a location, over whatever is there.
Graft(f, at, tree) ==
  [x \in DOMAIN f \cup { at \o r : r \in DOMAIN tree } |->
     IF IsPrefix(at, x) /\ SubSeq(x, Len(at) + 1, Len(x)) \in DOMAIN tree
       THEN tree[SubSeq(x, Len(at) + 1, Len(x))]
       ELSE f[x]]

\* cpSync without the recursion: the entry itself only.
CpSync_Shallow(f, src, dest) ==
  Graft(f, Loc(dest), Restrict(Subtree(f, Loc(src)), {<<>>}))

\* fs.cpSync(src, dest, {recursive: true}).
CpSync(f, src, dest) == Graft(f, Loc(dest), Subtree(f, Loc(src)))

\* The missing ancestors of a location, created as directories.
WithParents(f, at) ==
  [x \in DOMAIN f \cup { SubSeq(at, 1, n) : n \in 0..Len(at) } |->
     IF x \in DOMAIN f THEN f[x] ELSE "dir"]

-----------------------------------------------------------------------------
(* The template repository and the user's files.                           *)

\* What a complete clone of the template writes at its destination.
TemplatePool ==
  (<<>> :> "dir") @@
  (<<".git">> :> "dir") @@ (<<".git", "HEAD">> :> "tpl-head") @@
  (<<"package.json">> :> "tpl-manifest") @@
  (<<"src">> :> "dir") @@ (<<"src", "config.txt">> :> "tpl-config")

TemplateNames == {".git", "package.json", "src"}

\* The part of a tree that lies under the given top-level names.
TreeOf(pool, names) ==
  Restrict(pool, { r \in DOMAIN pool : r = <<>> \/ r[1] \in names })

\* What the working directory may hold when the program starts.
UserPool ==
  (<<>> :> "dir") @@
  (<<"config.txt">> :> "usr-config") @@
  (<<"package.json">> :> "usr-manifest") @@
  (<<"src">> :> "dir") @@ (<<"src", "main.js">> :> "usr-main") @@
  (<<".git">> :> "dir") @@ (<<".git", "HEAD">> :> "usr-head") @@
  (<<"full">> :> "dir") @@ (<<"full", "x">> :> "usr-x") @@
  (<<"empty">> :> "dir")

UserChoices ==
  { S \in SUBSET {"config.txt", "package.json", "src", ".git", "full", "empty"} :
      ("full" \in S) <=> ("empty" \in S) }

\* The root, the temporary directory and the working directory.
BaseFs == (<<>> :> "dir") @@ (Loc(TmpDir) :> "dir") @@ (Loc(Cwd) :> "dir")

\* Raw targets: every path string of 1..MaxSegs segments.
Targets == UNION { [1..n -> Segments] : n \in 1..MaxSegs }

-----------------------------------------------------------------------------
(* Errors. Every thrown Error is a record of the same shape.               *)

NoError == [kind |-> "none", code |-> 0, names |-> <<>>]
Err(kind) == [kind |-> kind, code |-> 0, names |-> <<>>]

\* The clone error without the exit code in its message.
CloneError_NoCode(code) == [kind |-> "clone", code |-> 0, names |-> <<>>]

\* 'Git clone failed with code ${code}'
CloneError(code) == [kind |-> "clone", code |-> code, names |-> <<>>]

\* 'Aborting. Your directory contains files that would conflict with the
\* template: ${conflictingFiles.join('\n')}'
ConflictError(conflictingFiles) ==
  [kind |-> "conflict", code |-> 0, names |-> conflictingFiles]

\* Non-zero exit codes of the git subprocess.
FailCodes == {1, 128}

-----------------------------------------------------------------------------
(* Pure parts of createProject.                                            *)

\* validateTargetDir: the resolved path, or the error it throws; cwd is
\* what process.cwd() returns.
validateTargetDir(cwd, targetDir) ==
  IF targetDir = <<"">>
    THEN [ok |-> FALSE, path |-> <<>>, error |-> Err("invalid")]
  ELSE LET resolvedPath == PathResolve(cwd, targetDir)
           normalizedPath == PathNormalize(resolvedPath)
       IN  IF normalizedPath # resolvedPath
             THEN [ok |-> FALSE, path |-> <<>>, error |-> Err("traversal")]
             ELSE [ok |-> TRUE, path |-> resolvedPath, error |-> NoError]

\* The alias test on the normalized spelling: './' passes too.
IsCurrentDir_Normalized(targetDir) == PathNormalize(targetDir) \in {<<".">>, <<".", "">>}

\* const isCurrentDir = targetDir === '.'
IsCurrentDir(targetDir) == targetDir = <<".">>

\* Scenario without the rejection of named non-empty directories.
Scenario_NoReject(isCurrentDir, dirExists, isDirEmpty) ==
  IF isCurrentDir /\ dirExists /\ ~isDirEmpty THEN "merge" ELSE "fresh"

\* Scenario merging into the current directory even when it is empty.
Scenario_MergeWhenEmpty(isCurrentDir, dirExists, isDirEmpty) ==
  IF dirExists /\ ~isDirEmpty /\ ~isCurrentDir THEN "reject"
  ELSE IF isCurrentDir /\ dirExists THEN "merge"
  ELSE "fresh"

\* The branch createProject takes on the sampled directory state.
Scenario(isCurrentDir, dirExists, isDirEmpty) ==
  IF dirExists /\ ~isDirEmpty /\ ~isCurrentDir THEN "reject"
  ELSE IF isCurrentDir /\ dirExists /\ ~isDirEmpty THEN "merge"
  ELSE "fresh"

Includes(s, x) == \E i \in 1..Len(s) : s[i] = x

\* The filter with its test negated.
ConflictingFiles_Negated(templateFiles, projectFiles) ==
  LET free(file) == ~Includes(projectFiles, file)
  IN  SelectSeq(templateFiles, free)

\* The first clash only (find in place of filter).
ConflictingFiles_First(templateFiles, projectFiles) ==
  LET clash(file) == Includes(projectFiles, file)
      all == SelectSeq(templateFiles, clash)
  IN  IF all = <<>> THEN <<>> ELSE <<Head(all)>>

\* templateFiles.filter((file) => projectFiles.includes(file))
ConflictingFiles(templateFiles, projectFiles) ==
  LET clash(file) == Includes(projectFiles, file)
  IN  SelectSeq(templateFiles, clash)

\* git clone writes into a missing or empty directory only, and not below
\* a file.
CanClone(f, dest) ==
  /\ Loc(dest) \in DOMAIN f => (f[Loc(dest)] = "dir" /\ Entries(f, dest) = {})
  /\ \A n \in 0..Len(Loc(dest)) :
       SubSeq(Loc(dest), 1, n) \in DOMAIN f => f[SubSeq(Loc(dest), 1, n)] = "dir"

\* The filesystem after git has written `tree` at `dest`.
GitClone(f, dest, tree) == Graft(WithParents(f, Loc(dest)), Loc(dest), tree)

-----------------------------------------------------------------------------
(* State.                                                                  *)

VARIABLES
  fs,     \* the filesystem
  frame,  \* per invocation: createProject's position and local variables
  ghost   \* per invocation: history kept for stating the properties

vars == <<fs, frame, ghost>>

\* No staging directory (a path string is never empty).
NoPath == <<>>

\* JavaScript's null and undefined, which the code tells apart nowhere.
Null == "null"

\* remote: the trees (as sets of top-level names) the template repository
\* may hold when git reads it.
IdleFrame ==
  [pc |-> "idle", cwd |-> Cwd, targetDir |-> <<".">>, projectPath |-> NoPath,
   isCurrentDir |-> FALSE, dirExists |-> FALSE, isDirEmpty |-> FALSE,
   tempDir |-> NoPath, cloneDest |-> NoPath, caller |-> "none",
   templateFiles |-> <<>>, projectFiles |-> <<>>, conflictingFiles |-> <<>>,
   index |-> 0, error |-> NoError, result |-> NoPath, exitCode |-> -1,
   installArg |-> <<>>, packageManager |-> Null,
   remote |-> SUBSET TemplateNames]

\* main has been started with the arguments ['create', targetDir].
StartFrame(targetDir) ==
  [IdleFrame EXCEPT !.pc = "main", !.targetDir = targetDir]

\* main has been started in cwd with ['create', targetDir] and, unless
\* installArg is <<>>, the --install argument.
StartFrameWith(cwd, targetDir, installArg) ==
  [IdleFrame EXCEPT !.pc = "main", !.cwd = cwd, !.targetDir = targetDir,
                    !.installArg = installArg]

\* main has been started in cwd with ['create', targetDir], the template
\* repository holding the tree of these names.
StartFrameIn(cwd, targetDir, names) ==
  [IdleFrame EXCEPT !.pc = "main", !.cwd = cwd, !.targetDir = targetDir,
                    !.remote = {names}]

\* fs0: the filesystem when createProject was called; fetched, template:
\* whether a clone exited 0 and the tree it wrote; gitExit: the exit code of
\* the git subprocess (-1 before it exits); gitLeft: the filesystem as git
\* left it when it exited; outcome: how createProject
\* ended ("returned", "threw"; "none" before); scenario: the branch taken;
\* acquired, released, spawned: how often a staging directory was created,
\* the release ran, a git subprocess was started; compared: whether the
\* comparison ran, and stagedNames, targetNames: the entry names it found in
\* the staging and the target directory; updates, installs: how often
\* updatePackageJson was called and an install subprocess started;
\* invocable: what isCommandInstalled answered in installDependencies;
\* beforeUpdate, beforeInstall: the filesystem when updatePackageJson was
\* called and when the install subprocess was started; installExit: the
\* exit code of the install subprocess; external: the entry names another
\* process added to the target while git was running; trace: the steps
\* taken so far.
IdleGhost(f) ==
  [fs0 |-> f, fetched |-> FALSE, template |-> TreeOf(TemplatePool, {}),
   gitExit |-> -1, gitLeft |-> f, outcome |-> "none",
   scenario |-> "none", acquired |-> 0, released |-> 0, spawned |-> 0,
   compared |-> FALSE, stagedNames |-> {}, targetNames |-> {},
   updates |-> 0, installs |-> 0, invocable |-> FALSE,
   beforeUpdate |-> f, beforeInstall |-> f, installExit |-> -1,
   external |-> {}, trace |-> <<>>]

InitFs ==
  { Graft(BaseFs, Loc(Cwd), TreeOf(UserPool, S)) : S \in UserChoices }

\* One invocation, p1, of the create command.
Init ==
  /\ fs \in InitFs
  /\ \E t \in Targets :
       frame = [p \in Procs |-> IF p = "p1" THEN StartFrame(t) ELSE IdleFrame]
  /\ ghost = [p \in Procs |-> IdleGhost(fs)]

Step(p, tag) == Append(ghost[p].trace, tag)

\* An exception leaves createProject.
Throws(p, error, g) ==
  /\ frame' = [frame EXCEPT ![p].pc = "threw", ![p].error = error]
  /\ ghost' = [ghost EXCEPT ![p] = [g EXCEPT !.outcome = "threw",
                                              !.trace = Append(g.trace, "throw")]]

\* createProject returns projectPath.
Returns(p, g) ==
  /\ frame' = [frame EXCEPT ![p].pc = "returned", ![p].result = frame[p].projectPath]
  /\ ghost' = [ghost EXCEPT ![p] = [g EXCEPT !.outcome = "returned",
                                              !.trace = Append(g.trace, "return")]]

-----------------------------------------------------------------------------
(* main, lines 259-306: the create command up to the call of createProject.*)

\* Lines 271-278. The --install argument is the sequence of its parts
\* around '=' (<<>> when the argument is absent): its second part, or
\* 'prompt' when that is missing or empty.
PackageManagerOf(installArg) ==
  IF installArg = <<>> THEN Null
  ELSE IF Len(installArg) < 2 \/ installArg[2] = "" THEN "prompt"
  ELSE installArg[2]

\* Lines 270-286: usage and exit 0 unless args[1] is a non-empty string,
\* else createProject(targetDir) is called.
MainCreate(p) ==
  /\ frame[p].pc = "main"
  /\ IF frame[p].targetDir = <<"">>
       THEN /\ frame' = [frame EXCEPT ![p].pc = "exited", ![p].exitCode = 0]
            /\ ghost' = [ghost EXCEPT ![p].trace = Step(p, "usage")]
       ELSE /\ frame' = [frame EXCEPT
                 ![p].pc = "validate",
                 ![p].packageManager = PackageManagerOf(frame[p].installArg)]
            /\ ghost' = [ghost EXCEPT ![p].fs0 = fs, ![p].trace = Step(p, "call")]
  /\ UNCHANGED fs

-----------------------------------------------------------------------------
(* createProject, lines 180-208.                                           *)

\* Line 181: const projectPath = validateTargetDir(targetDir).
Validate(p) ==
  /\ frame[p].pc = "validate"
  /\ LET v == validateTargetDir(frame[p].cwd, frame[p].targetDir)
         g == [ghost[p] EXCEPT !.trace = Step(p, "validate")]
     IN  IF v.ok
           THEN /\ frame' = [frame EXCEPT ![p].pc = "inspect",
                                          ![p].projectPath = v.path]
                /\ ghost' = [ghost EXCEPT ![p] = g]
           ELSE Throws(p, v.error, g)
  /\ UNCHANGED fs

\* Lines 182-194 and 206: the directory state is sampled and the scenario
\* chosen. readdirSync throws ENOTDIR when the path is a file.
Inspect(p) ==
  /\ frame[p].pc = "inspect"
  /\ LET projectPath == frame[p].projectPath
         isCurrentDir == IsCurrentDir(frame[p].targetDir)
         dirExists == ExistsSync(fs, projectPath)
         isDirEmpty == IF dirExists THEN Entries(fs, projectPath) = {} ELSE TRUE
         scenario == Scenario(isCurrentDir, dirExists, isDirEmpty)
         g == [ghost[p] EXCEPT !.trace = Step(p, "inspect")]
     IN  IF dirExists /\ ~IsDirectory(fs, projectPath)
           THEN Throws(p, Err("ENOTDIR"), g)
         ELSE IF scenario = "reject"
           THEN Throws(p, Err("notEmpty"), [g EXCEPT !.scenario = "reject"])
         ELSE /\ frame' = [frame EXCEPT
                   ![p].isCurrentDir = isCurrentDir,
                   ![p].dirExists = dirExists,
                   ![p].isDirEmpty = isDirEmpty,
                   ![p].pc = IF scenario = "merge" THEN "mkdtemp" ELSE "spawn",
                   ![p].caller = IF scenario = "merge" THEN "none" ELSE "new",
                   ![p].cloneDest = IF scenario = "merge" THEN NoPath ELSE projectPath]
              /\ ghost' = [ghost EXCEPT ![p] = [g EXCEPT !.scenario = scenario]]
  /\ UNCHANGED fs

\* mkdtemp with a fixed name: the directory is taken as it is when it
\* exists already.
Mkdtemp_FixedName(p) ==
  /\ frame[p].pc = "mkdtemp"
  /\ LET tempDir == PathJoin(TmpDir, <<"zvelte-a">>)
     IN  /\ fs' = IF ExistsSync(fs, tempDir) THEN fs
                   ELSE Graft(fs, Loc(tempDir), TreeOf(TemplatePool, {}))
         /\ frame' = [frame EXCEPT ![p].tempDir = tempDir,
                                   ![p].cloneDest = tempDir,
                                   ![p].caller = "merge",
                                   ![p].pc = "spawn"]
         /\ ghost' = [ghost EXCEPT ![p].acquired = @ + 1,
                                   ![p].trace = Step(p, "acquire")]

\* Line 195: const tempDir = fs.mkdtempSync(path.join(os.tmpdir(), 'zvelte-')),
\* then line 198 enters handleCurrentDirMerge(projectPath, tempDir).
Mkdtemp(p) ==
  /\ frame[p].pc = "mkdtemp"
  /\ \E name \in TempNames :
       LET tempDir == PathJoin(TmpDir, <<name>>)
       IN  /\ ~ExistsSync(fs, tempDir)
           /\ fs' = Graft(fs, Loc(tempDir), TreeOf(TemplatePool, {}))
           /\ frame' = [frame EXCEPT ![p].tempDir = tempDir,
                                     ![p].cloneDest = tempDir,
                                     ![p].caller = "merge",
                                     ![p].pc = "spawn"]
           /\ ghost' = [ghost EXCEPT ![p].acquired = @ + 1,
                                     ![p].trace = Step(p, "acquire")]

-----------------------------------------------------------------------------
(* cloneRepository, lines 32-48.                                           *)

\* Line 34: the git subprocess is started.
CloneSpawn(p) ==
  /\ frame[p].pc = "spawn"
  /\ frame' = [frame EXCEPT ![p].pc = "cloning"]
  /\ ghost' = [ghost EXCEPT ![p].spawned = @ + 1, ![p].trace = Step(p, "fetch")]
  /\ UNCHANGED fs

\* handleCurrentDirMerge going from the clone straight to the comparison.
AfterClone_SkipsStrip(caller) == IF caller = "merge" THEN "compare" ELSE "removeGit"

\* The pc after cloneRepository resolves, by call site (lines 122, 157).
AfterClone(caller) == IF caller = "merge" THEN "strip" ELSE "removeGit"

\* A failed step started again from the clone.
AfterThrow_Retries(caller) == "spawn"

\* No finally block: an exception leaves createProject at once.
AfterThrow_NoFinally(caller) == "threw"

\* The pc after an exception inside handleCurrentDirMerge (the finally
\* block of line 199) or inside handleNewProjectCreation (none).
AfterThrow(caller) == IF caller = "merge" THEN "finally" ELSE "threw"

\* Lines 38-46, exit code 0: the whole template is at the destination.
CloneExitZero(p) ==
  /\ frame[p].pc = "cloning"
  /\ CanClone(fs, frame[p].cloneDest)
  /\ \E names \in frame[p].remote :
       LET tree == TreeOf(TemplatePool, names)
       IN  /\ fs' = GitClone(fs, frame[p].cloneDest, tree)
           /\ ghost' = [ghost EXCEPT ![p].fetched = TRUE,
                                     ![p].template = tree,
                                     ![p].gitExit = 0,
                                     ![p].gitLeft = fs',
                                     ![p].trace = Step(p, "fetched")]
  /\ frame' = [frame EXCEPT ![p].pc = AfterClone(frame[p].caller)]

\* The close handler resolving whatever the exit code.
CloneExitFail_Resolves(p) ==
  /\ frame[p].pc = "cloning"
  /\ \E code \in FailCodes :
       ghost' = [ghost EXCEPT ![p].gitExit = code, ![p].trace = Step(p, "fetchFailed")]
  /\ frame' = [frame EXCEPT ![p].pc = AfterClone(frame[p].caller)]
  /\ UNCHANGED fs

\* Lines 38-46, non-zero exit code: git wrote nothing, or a part of the
\* template; the promise is rejected.
CloneExitFail(p) ==
  /\ frame[p].pc = "cloning"
  /\ \/ fs' = fs
     \/ /\ CanClone(fs, frame[p].cloneDest)
        /\ \E names \in UNION { SUBSET tree : tree \in frame[p].remote } :
             fs' = GitClone(fs, frame[p].cloneDest, TreeOf(TemplatePool, names))
  /\ \E code \in FailCodes :
       LET pc == AfterThrow(frame[p].caller)
           g == [ghost[p] EXCEPT !.gitExit = code, !.gitLeft = fs',
                                 !.trace = Step(p, "fetchFailed")]
       IN  IF pc = "threw"
             THEN Throws(p, CloneError(code), g)
             ELSE /\ frame' = [frame EXCEPT ![p].pc = pc,
                                            ![p].error = CloneError(code)]
                  /\ ghost' = [ghost EXCEPT ![p] = g]

-----------------------------------------------------------------------------
(* handleCurrentDirMerge, lines 118-148.                                   *)

\* Line 123 removing nothing (the .git of another directory).
StripGit_Skips(p) ==
  /\ frame[p].pc = "strip"
  /\ frame' = [frame EXCEPT ![p].pc = "compare"]
  /\ ghost' = [ghost EXCEPT ![p].trace = Step(p, "strip")]
  /\ UNCHANGED fs

\* Line 123: fs.rmSync(path.join(tempDir, '.git'), ...).
StripGit(p) ==
  /\ frame[p].pc = "strip"
  /\ fs' = RmSync(fs, PathJoin(frame[p].tempDir, <<".git">>))
  /\ frame' = [frame EXCEPT ![p].pc = "compare"]
  /\ ghost' = [ghost EXCEPT ![p].trace = Step(p, "strip")]

\* The comparison removing the staging directory itself, before the copy.
Compare_ReleasesEarly(p) ==
  /\ frame[p].pc = "compare"
  /\ LET templateFiles == ReaddirSync(fs, frame[p].tempDir)
         projectFiles == ReaddirSync(fs, frame[p].projectPath)
         conflictingFiles == ConflictingFiles(templateFiles, projectFiles)
         conflict == Len(conflictingFiles) > 0
     IN  /\ frame' = [frame EXCEPT
              ![p].templateFiles = templateFiles,
              ![p].projectFiles = projectFiles,
              ![p].conflictingFiles = conflictingFiles,
              ![p].index = 1,
              ![p].error = IF conflict THEN ConflictError(conflictingFiles) ELSE NoError,
              ![p].pc = IF conflict \/ templateFiles = <<>> THEN "finally" ELSE "copy"]
         /\ ghost' = [ghost EXCEPT
              ![p].compared = TRUE,
              ![p].stagedNames = Entries(fs, frame[p].tempDir),
              ![p].targetNames = Entries(fs, frame[p].projectPath),
              ![p].released = @ + 1,
              ![p].trace = Step(p, "compare") \o <<"release">>]
  /\ fs' = RmSync(fs, frame[p].tempDir)

\* The comparison made with the target's entries as they were when the
\* scenario was chosen.
Compare_StaleNames(p) ==
  /\ frame[p].pc = "compare"
  /\ LET templateFiles == ReaddirSync(fs, frame[p].tempDir)
         projectFiles == ReaddirSync(ghost[p].fs0, frame[p].projectPath)
         conflictingFiles == ConflictingFiles(templateFiles, projectFiles)
         conflict == Len(conflictingFiles) > 0
     IN  /\ frame' = [frame EXCEPT
              ![p].templateFiles = templateFiles,
              ![p].projectFiles = projectFiles,
              ![p].conflictingFiles = conflictingFiles,
              ![p].index = 1,
              ![p].error = IF conflict THEN ConflictError(conflictingFiles) ELSE NoError,
              ![p].pc = IF conflict \/ templateFiles = <<>> THEN "finally" ELSE "copy"]
         /\ ghost' = [ghost EXCEPT
              ![p].compared = TRUE,
              ![p].stagedNames = Entries(fs, frame[p].tempDir),
              ![p].targetNames = Entries(fs, frame[p].projectPath),
              ![p].trace = Step(p, "compare")]
  /\ UNCHANGED fs

\* Lines 125-137: both directories are listed and compared.
Compare(p) ==
  /\ frame[p].pc = "compare"
  /\ LET templateFiles == ReaddirSync(fs, frame[p].tempDir)
         projectFiles == ReaddirSync(fs, frame[p].projectPath)
         conflictingFiles == ConflictingFiles(templateFiles, projectFiles)
         conflict == Len(conflictingFiles) > 0
     IN  /\ frame' = [frame EXCEPT
              ![p].templateFiles = templateFiles,
              ![p].projectFiles = projectFiles,
              ![p].conflictingFiles = conflictingFiles,
              ![p].index = 1,
              ![p].error = IF conflict THEN ConflictError(conflictingFiles) ELSE NoError,
              ![p].pc = IF conflict \/ templateFiles = <<>> THEN "finally" ELSE "copy"]
         /\ ghost' = [ghost EXCEPT
              ![p].compared = TRUE,
              ![p].stagedNames = Entries(fs, frame[p].tempDir),
              ![p].targetNames = Entries(fs, frame[p].projectPath),
              ![p].trace = Step(p, "compare")]
  /\ UNCHANGED fs

\* Lines 139-143, one iteration: fs.cpSync(path.join(tempDir, file),
\* path.join(projectPath, file), {recursive: true}).
CopyFile(p) ==
  /\ frame[p].pc = "copy"
  /\ LET file == frame[p].templateFiles[frame[p].index]
         last == frame[p].index = Len(frame[p].templateFiles)
     IN  /\ fs' = CpSync(fs, PathJoin(frame[p].tempDir, <<file>>),
                             PathJoin(frame[p].projectPath, <<file>>))
         /\ frame' = [frame EXCEPT ![p].index = @ + 1,
                                   ![p].pc = IF last THEN "finally" ELSE "copy"]
  /\ ghost' = [ghost EXCEPT ![p].trace = Step(p, "copy")]

\* Lines 139-143: cpSync throws, having written nothing or only the entry
\* itself.
CopyFail(p) ==
  /\ frame[p].pc = "copy"
  /\ LET file == frame[p].templateFiles[frame[p].index]
         src == Loc(PathJoin(frame[p].tempDir, <<file>>))
         dest == Loc(PathJoin(frame[p].projectPath, <<file>>))
     IN  \/ fs' = fs
         \/ fs' = Graft(fs, dest, Restrict(Subtree(fs, src), {<<>>}))
  /\ frame' = [frame EXCEPT ![p].pc = "finally", ![p].error = Err("copy")]
  /\ ghost' = [ghost EXCEPT ![p].trace = Step(p, "copyFailed")]

\* Lines 199-203: finally { fs.rmSync(tempDir, ...) }, then the pending
\* exception is re-thrown or projectPath is returned.
Release(p) ==
  /\ frame[p].pc = "finally"
  /\ fs' = RmSync(fs, frame[p].tempDir)
  /\ LET g == [ghost[p] EXCEPT !.released = @ + 1, !.trace = Step(p, "release")]
     IN  IF frame[p].error # NoError
           THEN Throws(p, frame[p].error, g)
           ELSE Returns(p, g)

-----------------------------------------------------------------------------
(* handleNewProjectCreation, lines 155-172.                                *)

\* Lines 158-171 and 207: .git is absent or removed; the path is returned.
RemoveGit(p) ==
  /\ frame[p].pc = "removeGit"
  /\ fs' = RmSync(fs, PathJoin(frame[p].projectPath, <<".git">>))
  /\ Returns(p, [ghost[p] EXCEPT !.trace = Step(p, "removeGit")])

\* The catch block logging a warning and not re-throwing.
RemoveGitFail_Warns(p) ==
  /\ frame[p].pc = "removeGit"
  /\ ExistsSync(fs, PathJoin(frame[p].projectPath, <<".git">>))
  /\ Returns(p, [ghost[p] EXCEPT !.trace = Step(p, "removeGitFailed")])
  /\ UNCHANGED fs

\* Lines 160-169: rmSync throws; the catch block logs and re-throws.
RemoveGitFail(p) ==
  /\ frame[p].pc = "removeGit"
  /\ ExistsSync(fs, PathJoin(frame[p].projectPath, <<".git">>))
  /\ Throws(p, Err("rm"), [ghost[p] EXCEPT !.trace = Step(p, "removeGitFailed")])
  /\ UNCHANGED fs

-----------------------------------------------------------------------------

Next ==
  \E p \in Procs :
    \/ MainCreate(p)
    \/ Validate(p)
    \/ Inspect(p)
    \/ Mkdtemp(p)
    \/ CloneSpawn(p)
    \/ CloneExitZero(p)
    \/ CloneExitFail(p)
    \/ StripGit(p)
    \/ Compare(p)
    \/ CopyFile(p)
    \/ CopyFail(p)
    \/ Release(p)
    \/ RemoveGit(p)
    \/ RemoveGitFail(p)

Spec == Init /\ [][Next]_vars

-----------------------------------------------------------------------------
(* main after createProject, lines 286-305, with updatePackageJson,        *)
(* promptPackageManager and installDependencies.                           *)

\* The tools promptPackageManager looks for (line 233).
PackageManagers == {"bun", "pnpm", "npm", "yarn"}

\* The --install arguments tried: absent, bare, with an empty name, with a
\* name.
InstallArgs ==
  {<<>>, <<"--install">>, <<"--install", "">>, <<"--install", "npm">>,
   <<"--install", "yarn">>}

\* The targets tried with the whole command.
MainTargets ==
  {<<".">>, <<".", "">>, <<"newapp">>, <<"empty">>, <<"full">>,
   <<"config.txt">>, <<"..", "w">>, <<"">>}

\* path.basename of a resolved path.
PathBasename(path) == Last(path)

\* Lines 220-225: the manifest with name, description and version set.
RewriteManifest(content, projectName) == content \o " name=" \o projectName

\* process.exit(code).
Exit(p, code, g) ==
  /\ frame' = [frame EXCEPT ![p].pc = "exited", ![p].exitCode = code]
  /\ ghost' = [ghost EXCEPT ![p] =
       [g EXCEPT !.trace = Append(g.trace, IF code = 0 THEN "exit0" ELSE "exit1")]]

\* The catch block exiting with 0.
Catch_ExitsZero(p) ==
  /\ frame[p].pc = "threw"
  /\ Exit(p, 0, ghost[p])
  /\ UNCHANGED fs

\* The catch block swallowing the error of createProject: main goes on
\* with the path it computed.
Catch_Continues(p) ==
  /\ frame[p].pc = "threw"
  /\ frame' = [frame EXCEPT ![p].pc = "returned"]
  /\ UNCHANGED <<fs, ghost>>

\* Lines 302-305: the error createProject threw reaches the catch block.
Catch(p) ==
  /\ frame[p].pc = "threw"
  /\ Exit(p, 1, ghost[p])
  /\ UNCHANGED fs

\* The pc after updatePackageJson (lines 290-294).
AfterUpdate(packageManager) == IF packageManager = "prompt" THEN "prompt" ELSE "install"

\* Line 288, lines 214-226: updatePackageJson(projectPath) returns at once
\* when projectPath has no package.json, else rewrites it.
UpdatePackageJson(p) ==
  /\ frame[p].pc = "returned"
  /\ LET packageJsonPath == PathJoin(frame[p].result, <<"package.json">>)
         projectName == PathBasename(frame[p].result)
     IN  fs' = IF ExistsSync(fs, packageJsonPath)
                 THEN [fs EXCEPT ![Loc(packageJsonPath)] =
                                    RewriteManifest(@, projectName)]
                 ELSE fs
  /\ frame' = [frame EXCEPT ![p].pc = AfterUpdate(frame[p].packageManager)]
  /\ ghost' = [ghost EXCEPT ![p].updates = @ + 1,
                            ![p].beforeUpdate = fs,
                            ![p].trace = Step(p, "update")]

\* Lines 219-225 throwing (the file does not parse, cannot be read or
\* written): the catch block of main exits with 1.
UpdatePackageJsonFail(p) ==
  /\ frame[p].pc = "returned"
  /\ ExistsSync(fs, PathJoin(frame[p].result, <<"package.json">>))
  /\ frame' = [frame EXCEPT ![p].pc = "exited", ![p].exitCode = 1,
                            ![p].error = Err("manifest")]
  /\ ghost' = [ghost EXCEPT ![p].updates = @ + 1,
                            ![p].beforeUpdate = fs,
                            ![p].trace = Step(p, "update") \o <<"updateFailed", "exit1">>]
  /\ UNCHANGED fs

\* Lines 290-292, promptPackageManager (lines 232-254): null when none of
\* the tools answers --version, else the tool chosen among those that do,
\* or null for 'None' and for a prompt that was cancelled.
Prompt(p) ==
  /\ frame[p].pc = "prompt"
  /\ \E availablePms \in SUBSET PackageManagers :
       \E pm \in availablePms \cup {Null} :
         frame' = [frame EXCEPT ![p].pc = "install", ![p].packageManager = pm]
  /\ ghost' = [ghost EXCEPT ![p].trace = Step(p, "prompt")]
  /\ UNCHANGED fs

\* installDependencies starting the subprocess whatever isCommandInstalled
\* answers.
InstallSpawn_Unchecked(p) ==
  /\ frame[p].pc = "install"
  /\ frame[p].packageManager # Null
  /\ \E invocable \in BOOLEAN :
       ghost' = [ghost EXCEPT ![p].installs = @ + 1,
                              ![p].invocable = invocable,
                              ![p].beforeInstall = fs,
                              ![p].trace = Step(p, "install")]
  /\ frame' = [frame EXCEPT ![p].pc = "installing"]
  /\ UNCHANGED fs

\* Lines 294-295 with lines 57-66: installDependencies returns without a
\* subprocess when no tool was selected or the tool does not answer
\* --version, and main exits with 0.
InstallSkip(p) ==
  /\ frame[p].pc = "install"
  /\ \E invocable \in BOOLEAN :
       /\ frame[p].packageManager = Null \/ ~invocable
       /\ Exit(p, 0, [ghost[p] EXCEPT !.invocable = invocable,
                                      !.trace = Step(p, "installSkip")])
  /\ UNCHANGED fs

\* Lines 61 and 71-75: the tool answers --version and `<tool> install` is
\* spawned in projectPath.
InstallSpawn(p) ==
  /\ frame[p].pc = "install"
  /\ frame[p].packageManager # Null
  /\ frame' = [frame EXCEPT ![p].pc = "installing"]
  /\ ghost' = [ghost EXCEPT ![p].installs = @ + 1,
                            ![p].invocable = TRUE,
                            ![p].beforeInstall = fs,
                            ![p].trace = Step(p, "install")]
  /\ UNCHANGED fs

\* What the install subprocess writes: node_modules in the project.
Installed(f, projectPath) ==
  LET at == Loc(projectPath) \o <<"node_modules">>
  IN  IF IsDirectory(f, projectPath) /\ at \notin DOMAIN f
        THEN [x \in DOMAIN f \cup {at} |-> IF x = at THEN "dir" ELSE f[x]]
        ELSE f

\* 'Dependency installation failed with code ${code}'
InstallError(code) == [kind |-> "install", code |-> code, names |-> <<>>]

\* Lines 77-81 and 295: the subprocess exits with 0, main exits with 0.
InstallExitZero(p) ==
  /\ frame[p].pc = "installing"
  /\ fs' = Installed(fs, frame[p].result)
  /\ Exit(p, 0, [ghost[p] EXCEPT !.installExit = 0,
                                 !.trace = Step(p, "installed")])

\* Lines 82-85 and 302-305: the subprocess exits with another code, having
\* written node_modules or not; installDependencies rejects and the catch
\* block of main exits with 1.
InstallExitFail(p) ==
  /\ frame[p].pc = "installing"
  /\ fs' \in {fs, Installed(fs, frame[p].result)}
  /\ \E code \in FailCodes :
       /\ frame' = [frame EXCEPT ![p].pc = "exited", ![p].exitCode = 1,
                                 ![p].error = InstallError(code)]
       /\ ghost' = [ghost EXCEPT ![p].installExit = code,
                                 ![p].trace = Step(p, "installFailed") \o <<"exit1">>]

NextMain ==
  \/ Next
  \/ \E p \in Procs :
       \/ Catch(p)
       \/ UpdatePackageJson(p)
       \/ UpdatePackageJsonFail(p)
       \/ Prompt(p)
       \/ InstallSkip(p)
       \/ InstallSpawn(p)
       \/ InstallExitZero(p)
       \/ InstallExitFail(p)

\* One invocation, p1, of the create command with or without --install.
InitMain ==
  /\ fs \in InitFs
  /\ \E t \in MainTargets, a \in InstallArgs :
       frame = [p \in Procs |-> IF p = "p1" THEN StartFrameWith(Cwd, t, a)
                                            ELSE IdleFrame]
  /\ ghost = [p \in Procs |-> IdleGhost(fs)]

SpecMain == InitMain /\ [][NextMain]_vars

-----------------------------------------------------------------------------
(* Two invocations at once: two processes of the operating system, whose   *)
(* filesystem calls interleave.                                            *)

\* A second working directory.
Cwd2 == <<"", "v">>

\* What the two working directories hold.
ConcFs ==
  Graft(Graft(WithParents(BaseFs, Loc(Cwd2)), Loc(Cwd), TreeOf(UserPool, {"config.txt"})),
        Loc(Cwd2), TreeOf(UserPool, {"config.txt"}))

\* The runs tried: p1 in Cwd with target t1, p2 in cwd2 with target t2.
ConcRuns ==
  { [t1 |-> <<".">>, cwd2 |-> Cwd2, t2 |-> <<".">>],
    [t1 |-> <<".">>, cwd2 |-> Cwd, t2 |-> <<"newapp">>],
    [t1 |-> <<"newapp">>, cwd2 |-> Cwd2, t2 |-> <<"newapp">>] }

\* The template both fetch.
ConcTemplate == {".git", "src"}

InitConc ==
  /\ fs = ConcFs
  /\ \E r \in ConcRuns :
       frame = [p \in Procs |->
                  IF p = "p1" THEN StartFrameIn(Cwd, r.t1, ConcTemplate)
                              ELSE StartFrameIn(r.cwd2, r.t2, ConcTemplate)]
  /\ ghost = [p \in Procs |-> IdleGhost(fs)]

SpecConc == InitConc /\ [][Next]_vars

-----------------------------------------------------------------------------
(* Another process writing to the current directory while git runs.        *)

\* The entry names the other process may add, and what it writes.
ExternalNames == {"src", "package.json", "notes.txt"}
ExternalContent == "ext-file"

\* While the clone of a merge is running (line 122 awaited), a file of one
\* of these names appears in the target, where no such entry was.
ExternalAdd(p) ==
  /\ frame[p].pc = "cloning"
  /\ frame[p].caller = "merge"
  /\ ghost[p].external = {}
  /\ \E n \in ExternalNames :
       LET at == Loc(frame[p].projectPath) \o <<n>>
       IN  /\ at \notin DOMAIN fs
           /\ fs' = [x \in DOMAIN fs \cup {at} |->
                       IF x = at THEN ExternalContent ELSE fs[x]]
           /\ ghost' = [ghost EXCEPT ![p].external = {n}]
  /\ UNCHANGED frame

\* The targets tried beside the other process.
RaceTargets == {<<".">>, <<"newapp">>}

InitRace ==
  /\ fs \in InitFs
  /\ \E t \in RaceTargets :
       frame = [p \in Procs |-> IF p = "p1" THEN StartFrame(t) ELSE IdleFrame]
  /\ ghost = [p \in Procs |-> IdleGhost(fs)]

NextRace ==
  \/ Next
  \/ \E p \in Procs : ExternalAdd(p)

SpecRace == InitRace /\ [][NextRace]_vars

-----------------------------------------------------------------------------
(* The whole command to its end.                                           *)

\* Lines 34-38: spawn cannot start git (no executable on the PATH). The
\* child process emits 'error'; cloneRepository listens to 'close' only, so
\* the event is an uncaught exception and node ends the process with code
\* 1: neither the catch block of main nor the finally block of
\* createProject runs.
CloneSpawnError(p) ==
  /\ frame[p].pc = "spawn"
  /\ frame' = [frame EXCEPT ![p].pc = "exited", ![p].exitCode = 1,
                            ![p].error = Err("spawn")]
  /\ ghost' = [ghost EXCEPT ![p].trace = Step(p, "spawnError") \o <<"exit1">>]
  /\ UNCHANGED fs

NextLive ==
  \/ NextMain
  \/ \E p \in Procs : CloneSpawnError(p)

\* Fairness: node runs every continuation that is ready, every subprocess
\* that was started exits and the prompt is answered.
SpecLive == InitMain /\ [][NextLive]_vars /\ WF_vars(NextLive)

-----------------------------------------------------------------------------
(* Vocabulary of the properties.                                           *)

Range(s) == { s[i] : i \in 1..Len(s) }

\* The top-level entry names of a relative tree.
TopNames(tree) == { r[1] : r \in { x \in DOMAIN tree : Len(x) = 1 } }

\* createProject has been called / has returned or thrown.
Called(p) == frame[p].pc \notin {"idle", "main", "exited"}
Finished(p) == ghost[p].outcome # "none"
Returned(p) == ghost[p].outcome = "returned"
Threw(p) == ghost[p].outcome = "threw"

\* The directory the raw target resolves to.
Resolved(p) == PathResolve(frame[p].cwd, frame[p].targetDir)

\* The target's tree now and when createProject was called.
TargetNow(p) == Subtree(fs, Loc(Resolved(p)))
TargetBefore(p) == Subtree(ghost[p].fs0, Loc(Resolved(p)))

\* The target was a non-empty directory / was missing or an empty directory
\* when createProject was called.
WasNonEmptyDir(p) ==
  IsDirectory(ghost[p].fs0, Resolved(p)) /\ Entries(ghost[p].fs0, Resolved(p)) # {}
WasMissingOrEmpty(p) ==
  \/ ~ExistsSync(ghost[p].fs0, Resolved(p))
  \/ IsDirectory(ghost[p].fs0, Resolved(p)) /\ Entries(ghost[p].fs0, Resolved(p)) = {}

\* Every staging directory there is.
StagingDirs == Entries(fs, TmpDir)

\* The names the fetched template (without .git) shares with the target.
Shared(p) ==
  (TopNames(ghost[p].template) \ {".git"}) \cap Entries(ghost[p].fs0, Resolved(p))

\* Merge runs in which the clone exited 0.
MergeFetched(p) == ghost[p].scenario = "merge" /\ ghost[p].fetched

\* The steps of a run that go through the staging directory.
StagingSteps == {"fetch", "fetched", "fetchFailed", "strip", "compare", "copy", "copyFailed"}

-----------------------------------------------------------------------------
(* Claims.                                                                 *)

\* C1: for a raw target other than '.' whose resolved directory exists and
\* is not empty, createProject throws the 'already exists and is not empty'
\* error, and nothing is written: no staging directory is created, no git
\* subprocess is started and the filesystem is as it was at the call.
C1_RejectLeavesFilesystem ==
  \A p \in Procs :
    (Called(p) /\ frame[p].targetDir # <<".">> /\ WasNonEmptyDir(p)) =>
      /\ fs = ghost[p].fs0
      /\ ghost[p].acquired = 0
      /\ ghost[p].spawned = 0
      /\ frame[p].pc \in {"validate", "inspect"} \/ Threw(p)
      /\ Threw(p) => frame[p].error = Err("notEmpty")

C1_Witness ==
  \E p \in Procs :
    /\ frame[p].targetDir # <<".">> /\ WasNonEmptyDir(p)
    /\ Threw(p)
    /\ Loc(Resolved(p)) # Loc(frame[p].cwd)

\* C2: in the merge scenario, when the fetched template without its .git
\* shares a top-level name with the current directory, createProject throws
\* the conflict error, the current directory is exactly as it was at the
\* call and the staging directory is gone.
C2_ConflictRejected ==
  \A p \in Procs :
    (Finished(p) /\ MergeFetched(p) /\ Shared(p) # {}) =>
      /\ Threw(p)
      /\ frame[p].error.kind = "conflict"
      /\ TargetNow(p) = TargetBefore(p)
      /\ frame[p].tempDir # NoPath
      /\ ~ExistsSync(fs, frame[p].tempDir)
      /\ StagingDirs = {}

C2_Witness ==
  \E p \in Procs :
    /\ Finished(p) /\ MergeFetched(p) /\ Shared(p) # {}
    /\ frame[p].error.kind = "conflict"
    /\ ".git" \in TopNames(ghost[p].template)

\* C3: in the merge scenario, when the fetched template without its .git
\* shares no top-level name with the current directory, createProject fails
\* only if a copy fails, and when it returns every top-level entry of the
\* template other than .git is under the target with the template's
\* contents, everything that was in the target is still there unchanged,
\* and the staging directory is gone.
C3_MergeSuccess ==
  \A p \in Procs :
    (Finished(p) /\ MergeFetched(p) /\ Shared(p) = {}) =>
      /\ Threw(p) => frame[p].error = Err("copy")
      /\ Returned(p) =>
           /\ frame[p].result = Resolved(p)
           /\ \A n \in TopNames(ghost[p].template) \ {".git"} :
                Subtree(fs, Loc(Resolved(p)) \o <<n>>) = Subtree(ghost[p].template, <<n>>)
           /\ \A x \in DOMAIN TargetBefore(p) :
                x \in DOMAIN TargetNow(p) /\ TargetNow(p)[x] = TargetBefore(p)[x]
           /\ ~ExistsSync(fs, frame[p].tempDir)
           /\ StagingDirs = {}

C3_Witness ==
  \E p \in Procs :
    /\ MergeFetched(p) /\ Returned(p)
    /\ TopNames(ghost[p].template) = TemplateNames
    /\ {"config.txt", ".git"} \subseteq Entries(ghost[p].fs0, Resolved(p))

\* C4: a staging directory is released exactly once on every exit of the
\* merge: never more releases than acquires, at most one acquire, and once
\* createProject has returned or thrown the two are equal, a merge run has
\* acquired one, and no staging directory exists.
C4_ReleaseOncePerAcquire ==
  \A p \in Procs :
    /\ ghost[p].released <= ghost[p].acquired
    /\ ghost[p].acquired <= 1
    /\ ghost[p].acquired = 1 <=> frame[p].tempDir # NoPath
    /\ Finished(p) =>
         /\ ghost[p].released = ghost[p].acquired
         /\ ghost[p].scenario = "merge" => ghost[p].acquired = 1
         /\ frame[p].tempDir # NoPath => ~ExistsSync(fs, frame[p].tempDir)
         /\ StagingDirs = {}

C4_Witness ==
  \E p \in Procs :
    /\ Threw(p) /\ frame[p].error = Err("copy")
    /\ ghost[p].acquired = 1 /\ ghost[p].released = 1

\* C5: in the merge scenario, when git exits with a non-zero code,
\* createProject throws the clone error carrying that code, the staging
\* directory has been released exactly once and is gone, no copy step ran
\* and the target is as it was at the call.
C5_FetchFailureReleases ==
  \A p \in Procs :
    (Finished(p) /\ ghost[p].scenario = "merge" /\ ghost[p].gitExit \in FailCodes) =>
      /\ Threw(p)
      /\ frame[p].error = CloneError(ghost[p].gitExit)
      /\ ghost[p].released = 1
      /\ ~ExistsSync(fs, frame[p].tempDir)
      /\ StagingDirs = {}
      /\ Range(ghost[p].trace) \cap {"strip", "compare", "copy", "copyFailed"} = {}
      /\ TargetNow(p) = TargetBefore(p)

C5_Witness ==
  \E p \in Procs :
    /\ Finished(p) /\ ghost[p].scenario = "merge" /\ ghost[p].gitExit = 1
    /\ ghost[p].released = 1

\* C6: in a run that acquired a staging directory, the release comes after
\* every fetch, strip, compare and copy step and before the return or the
\* re-throw: while any of those steps is still to come the directory exists
\* and is unreleased, nothing but the return or throw follows the release,
\* and the run never ends without it.
C6_ReleaseOrdering ==
  \A p \in Procs :
    LET t == ghost[p].trace
    IN  /\ \A i \in 1..Len(t) : t[i] = "release" =>
             /\ \A j \in 1..Len(t) : j > i => t[j] \in {"return", "throw"}
             /\ \E j \in 1..Len(t) : j < i /\ t[j] = "acquire"
        /\ (frame[p].tempDir # NoPath
              /\ frame[p].pc \in {"spawn", "cloning", "strip", "compare", "copy", "finally"}) =>
             /\ ghost[p].released = 0
             /\ IsDirectory(fs, frame[p].tempDir)
        /\ (Finished(p) /\ ghost[p].acquired > 0) =>
             /\ Len(t) >= 2
             /\ t[Len(t) - 1] = "release"
             /\ Range(t) \cap StagingSteps # {}

C6_Witness ==
  \E p \in Procs :
    /\ Returned(p)
    /\ {"acquire", "copy", "release"} \subseteq Range(ghost[p].trace)

\* C7: for a target whose resolved directory is missing or empty (the
\* target '.' in an empty current directory included), createProject takes
\* the fresh-create branch: git clones straight into the resolved path, the
\* merge steps never run and no staging directory is ever created.
C7_FreshCreate ==
  \A p \in Procs :
    (Called(p) /\ WasMissingOrEmpty(p)) =>
      /\ ghost[p].scenario \in {"none", "fresh"}
      /\ frame[p].pc \in {"validate", "inspect", "spawn", "cloning", "removeGit"}
           \/ Finished(p)
      /\ ghost[p].acquired = 0
      /\ frame[p].tempDir = NoPath
      /\ StagingDirs = {}
      /\ ghost[p].spawned > 0 => frame[p].cloneDest = Resolved(p)
      /\ Finished(p) => ghost[p].spawned = 1
      /\ frame[p].pc = "removeGit" => TargetNow(p) = ghost[p].template

C7_Witness ==
  \E p \in Procs :
    /\ frame[p].targetDir = <<".">> /\ WasMissingOrEmpty(p)
    /\ Returned(p)
    /\ "package.json" \in Entries(fs, Resolved(p))

\* C8 (not settled: no reachable case). path.resolve returns a normalized
\* path, so validateTargetDir's comparison never differs and the traversal
\* error is never thrown, whatever the target.
ResolvedIsNormalized ==
  \A p \in Procs :
    /\ Called(p) => PathNormalize(Resolved(p)) = Resolved(p)
    /\ frame[p].error.kind # "traversal"

C10_ConflictsAreIntersection ==
  \A p \in Procs :
    ghost[p].compared =>
      LET both == ghost[p].stagedNames \cap ghost[p].targetNames
          copying == frame[p].pc = "copy"
                       \/ Range(ghost[p].trace) \cap {"copy", "copyFailed"} # {}
      IN  /\ ghost[p].stagedNames = TopNames(ghost[p].template) \ {".git"}
          /\ ghost[p].targetNames = Entries(ghost[p].fs0, Resolved(p))
          /\ Range(frame[p].conflictingFiles) = both
          /\ Len(frame[p].conflictingFiles) = Cardinality(both)
          /\ both # {} <=> frame[p].error.kind = "conflict"
          /\ frame[p].error.kind = "conflict" =>
               frame[p].error.names = frame[p].conflictingFiles
          /\ copying <=> (both = {} /\ ghost[p].stagedNames # {})

C10_Witness ==
  \E p \in Procs :
    /\ Threw(p) /\ frame[p].error.kind = "conflict"
    /\ Range(frame[p].error.names) = {"package.json", "src"}
    /\ "config.txt" \in ghost[p].targetNames
    /\ <<"src", "config.txt">> \in DOMAIN ghost[p].template

\* C11: the merge scenario is entered exactly when the raw target is the
\* literal '.' and the current directory is a non-empty directory; another
\* spelling of the same non-empty directory ('./', its absolute path) is
\* rejected with the not-empty error, nothing having been written.
C11_AliasIsLiteralDot ==
  \A p \in Procs :
    (Called(p) /\ ghost[p].scenario # "none") =>
      /\ (ghost[p].scenario = "merge") <=>
           (frame[p].targetDir = <<".">> /\ WasNonEmptyDir(p))
      /\ ghost[p].acquired > 0 => ghost[p].scenario = "merge"
      /\ (frame[p].targetDir # <<".">> /\ WasNonEmptyDir(p)
            /\ Loc(Resolved(p)) = Loc(frame[p].cwd)) =>
           /\ ghost[p].scenario = "reject"
           /\ Threw(p)
           /\ frame[p].error.kind = "notEmpty"
           /\ fs = ghost[p].fs0
           /\ ghost[p].acquired = 0
           /\ ghost[p].spawned = 0

C11_Witness ==
  \E p \in Procs :
    /\ frame[p].targetDir = frame[p].cwd
    /\ WasNonEmptyDir(p)
    /\ Threw(p) /\ frame[p].error.kind = "notEmpty"

\* C15: in the merge scenario the staged .git is removed before the names
\* are read: '.git' is not among the names compared, reported or copied, a
\* .git of the current directory causes no conflict, and the target's .git
\* (present or not) stays as it was at the call.
C15_GitNeverMerged ==
  \A p \in Procs :
    ghost[p].scenario = "merge" =>
      /\ Subtree(fs, Loc(Resolved(p)) \o <<".git">>)
           = Subtree(ghost[p].fs0, Loc(Resolved(p)) \o <<".git">>)
      /\ ghost[p].compared =>
           /\ ".git" \notin ghost[p].stagedNames
           /\ ".git" \notin Range(frame[p].templateFiles)
           /\ ".git" \notin Range(frame[p].conflictingFiles)
           /\ Shared(p) = {} => frame[p].error.kind # "conflict"

C15_Witness ==
  \E p \in Procs :
    /\ ghost[p].scenario = "merge" /\ Returned(p)
    /\ {".git", "package.json"} \subseteq TopNames(ghost[p].template)
    /\ ".git" \in ghost[p].targetNames
    /\ fs[Loc(Resolved(p)) \o <<".git", "HEAD">>] = "usr-head"

\* The place of a step in the merge: acquire, fetch, exit of the fetch,
\* strip, compare, copy, release, end.
MergeRank(tag) ==
  CASE tag = "acquire" -> 1
    [] tag = "fetch" -> 2
    [] tag \in {"fetched", "fetchFailed"} -> 3
    [] tag = "strip" -> 4
    [] tag = "compare" -> 5
    [] tag \in {"copy", "copyFailed"} -> 6
    [] tag = "release" -> 7
    [] tag \in {"return", "throw"} -> 8
    [] OTHER -> 0

\* C16: the steps of a merge come one after the other in the order acquire,
\* fetch, strip, compare, copy, release, none twice but the copy of the
\* successive entries; the comparison runs only after git exited 0 and the
\* strip; and the target is as it was at the call until the comparison has
\* found no conflict.
C16_MergeStepOrder ==
  \A p \in Procs :
    ghost[p].scenario = "merge" =>
      LET t == ghost[p].trace
          has(tag) == tag \in Range(t)
      IN  /\ \A i, j \in 1..Len(t) :
               (i < j /\ MergeRank(t[i]) > 0 /\ MergeRank(t[j]) > 0) =>
                 \/ MergeRank(t[i]) < MergeRank(t[j])
                 \/ t[i] = "copy" /\ t[j] \in {"copy", "copyFailed"}
          /\ has("fetch") => has("acquire")
          /\ (has("fetched") \/ has("fetchFailed")) => has("fetch")
          /\ has("strip") => (has("fetched") /\ ghost[p].gitExit = 0)
          /\ has("compare") => has("strip")
          /\ (has("copy") \/ has("copyFailed")) =>
               (has("compare") /\ frame[p].conflictingFiles = <<>>)
          /\ has("release") => has("fetched") \/ has("fetchFailed")
          /\ (~ghost[p].compared \/ frame[p].conflictingFiles # <<>>) =>
               TargetNow(p) = TargetBefore(p)
          /\ frame[p].pc = "cloning" => ghost[p].gitExit = -1

C16_Witness ==
  \E p \in Procs :
    /\ ghost[p].scenario = "merge" /\ Returned(p)
    /\ Len(SelectSeq(ghost[p].trace, LAMBDA tag : tag = "copy")) = 2

\* C17: in the fresh-create scenario, when git exits with a non-zero code,
\* createProject throws the clone error carrying that code, the removal of
\* .git is not attempted, whatever git left in the target stays (no
\* rollback), and no staging directory was ever created.
C17_FreshFetchFailure ==
  \A p \in Procs :
    (ghost[p].scenario = "fresh" /\ ghost[p].gitExit \in FailCodes) =>
      /\ Threw(p)
      /\ frame[p].error.kind = "clone"
      /\ frame[p].error.code = ghost[p].gitExit
      /\ Range(ghost[p].trace) \cap {"removeGit", "removeGitFailed"} = {}
      /\ fs = ghost[p].gitLeft
      /\ ghost[p].acquired = 0
      /\ StagingDirs = {}

C17_Witness ==
  \E p \in Procs :
    /\ ghost[p].scenario = "fresh" /\ ghost[p].gitExit = 128 /\ Threw(p)
    /\ TargetNow(p) # TargetBefore(p)
    /\ "package.json" \in Entries(fs, Resolved(p))

\* A failure was reported: createProject threw (validation, rejection,
\* fetch, conflict, copy, .git removal), updatePackageJson threw, or the
\* install subprocess exited with a non-zero code.
FailureReported(p) ==
  \/ Threw(p)
  \/ Range(ghost[p].trace) \cap {"updateFailed", "installFailed"} # {}

Exited(p) == frame[p].pc = "exited"

\* The first place of a step in the trace (0 when it did not happen).
Pos(p, tag) ==
  IF tag \in Range(ghost[p].trace)
    THEN CHOOSE i \in 1..Len(ghost[p].trace) :
           /\ ghost[p].trace[i] = tag
           /\ \A j \in 1..(i - 1) : ghost[p].trace[j] # tag
    ELSE 0

\* C12: a create invocation that reported a failure exits with 1, and one
\* that exits with 0 reported none: once createProject has thrown, the only
\* exit is the one with code 1.
C12_ExitCodeReflectsFailure ==
  \A p \in Procs :
    /\ (Exited(p) /\ "call" \in Range(ghost[p].trace)) =>
         /\ frame[p].exitCode \in {0, 1}
         /\ (frame[p].exitCode = 1) <=> FailureReported(p)
    /\ FailureReported(p) =>
         /\ frame[p].pc \in {"threw", "exited"}
         /\ frame[p].exitCode # 0
         /\ frame[p].error # NoError

C12_Witness ==
  \E p \in Procs :
    /\ Exited(p) /\ frame[p].exitCode = 1
    /\ Threw(p) /\ frame[p].error.kind = "conflict"

\* C13: an install subprocess is started only with a tool name (given or
\* chosen) that answered --version; with no name or a tool that does not
\* answer, no subprocess is started and the run exits with 0; when the
\* subprocess exits with a non-zero code the run exits with 1 and
\* everything that was in the project directory is still there.
C13_InstallOnlyWhenSelected ==
  \A p \in Procs :
    /\ ghost[p].installs > 0 =>
         /\ frame[p].packageManager \in PackageManagers
         /\ ghost[p].invocable
         /\ Returned(p)
    /\ "installSkip" \in Range(ghost[p].trace) =>
         /\ frame[p].packageManager = Null \/ ~ghost[p].invocable
         /\ ghost[p].installs = 0
         /\ Exited(p) /\ frame[p].exitCode = 0
    /\ (Exited(p) /\ ghost[p].installs = 0 /\ Returned(p)
          /\ "updateFailed" \notin Range(ghost[p].trace)) =>
         "installSkip" \in Range(ghost[p].trace)
    /\ ghost[p].installExit \in FailCodes =>
         /\ Exited(p) /\ frame[p].exitCode = 1
         /\ frame[p].error.kind = "install"
         /\ frame[p].error.code = ghost[p].installExit
         /\ IsDirectory(fs, frame[p].result)
         /\ \A x \in DOMAIN ghost[p].beforeInstall :
              IsPrefix(Loc(frame[p].result), x) =>
                x \in DOMAIN fs /\ fs[x] = ghost[p].beforeInstall[x]

C13_Witness ==
  \E p \in Procs :
    /\ ghost[p].installExit \in FailCodes
    /\ frame[p].exitCode = 1
    /\ ghost[p].scenario = "fresh"
    /\ ExistsSync(fs, PathJoin(frame[p].result, <<"node_modules">>))
    /\ ExistsSync(fs, PathJoin(frame[p].result, <<"package.json">>))
    /\ fs[Loc(frame[p].result) \o <<"package.json">>] = "tpl-manifest name=newapp"

\* C18: an invocation starts at most one git subprocess and at most one
\* install subprocess, and after either has failed it starts no fetch, no
\* copy and no install.
C18_NoRetry ==
  \A p \in Procs :
    /\ ghost[p].spawned <= 1
    /\ ghost[p].installs <= 1
    /\ \A i, j \in 1..Len(ghost[p].trace) :
         (i < j /\ ghost[p].trace[i] \in {"fetchFailed", "installFailed"}) =>
           ghost[p].trace[j] \notin
             {"acquire", "fetch", "fetched", "fetchFailed", "strip", "compare",
              "copy", "copyFailed", "install", "installed", "installFailed"}

C18_Witness ==
  \E p \in Procs :
    /\ Exited(p)
    /\ ghost[p].scenario = "merge"
    /\ ghost[p].gitExit \in FailCodes
    /\ ghost[p].spawned = 1 /\ ghost[p].released = 1

\* C19: updatePackageJson and installDependencies run only after
\* createProject has returned, in the order materialize, rewrite the
\* manifest, install; when createProject throws (validation, rejection,
\* fetch, conflict, copy) neither of the two is called.
C19_PostProcessingAfterSuccess ==
  \A p \in Procs :
    LET installCalled ==
          Range(ghost[p].trace) \cap {"install", "installSkip"} # {}
    IN  /\ ghost[p].updates > 0 =>
             /\ Returned(p)
             /\ ghost[p].updates = 1
             /\ Pos(p, "return") < Pos(p, "update")
        /\ installCalled =>
             /\ ghost[p].updates = 1
             /\ "updateFailed" \notin Range(ghost[p].trace)
             /\ \A tag \in {"prompt", "install", "installSkip"} :
                  Pos(p, tag) > 0 => Pos(p, "update") < Pos(p, tag)
        /\ Threw(p) =>
             /\ ghost[p].updates = 0 /\ ghost[p].installs = 0
             /\ Range(ghost[p].trace)
                  \cap {"update", "prompt", "install", "installSkip"} = {}

C19_Witness ==
  \E p \in Procs :
    /\ Exited(p) /\ frame[p].exitCode = 0
    /\ ghost[p].scenario = "merge"
    /\ ghost[p].installExit = 0
    /\ frame[p].installArg = <<"--install">>

\* C20 as stated: after a successful create on '.' in a non-empty current
\* directory, merge and manifest rewriting included, every entry the
\* directory had before is as it was, and a manifest that was rewritten is
\* one the merge copied from the template.
C20_PreexistingUntouched ==
  \A p \in Procs :
    (ghost[p].scenario = "merge" /\ Returned(p) /\ ghost[p].updates > 0) =>
      /\ \A x \in DOMAIN ghost[p].fs0 :
           IsPrefix(Loc(frame[p].result), x) =>
             x \in DOMAIN fs /\ fs[x] = ghost[p].fs0[x]
      /\ ExistsSync(ghost[p].beforeUpdate,
                    PathJoin(frame[p].result, <<"package.json">>)) =>
           "package.json" \in TopNames(ghost[p].template)

\* The run on which it fails: the current directory holds a package.json,
\* the fetched template holds none; the merge returns and the user's
\* manifest is rewritten.
C20_UserManifestRewritten ==
  \E p \in Procs :
    /\ ghost[p].scenario = "merge" /\ Returned(p) /\ ghost[p].updates = 1
    /\ "package.json" \notin TopNames(ghost[p].template)
    /\ ExistsSync(ghost[p].fs0, PathJoin(frame[p].result, <<"package.json">>))
    /\ ghost[p].fs0[Loc(frame[p].result) \o <<"package.json">>] = "usr-manifest"
    /\ fs[Loc(frame[p].result) \o <<"package.json">>] = "usr-manifest name=w"

\* A tree without its .git.
Stripped(tree) == Restrict(tree, { x \in DOMAIN tree : ~IsPrefix(<<".git">>, x) })

\* The target an invocation that returned leaves when it runs alone: the
\* template without .git, in the merge over what the target held.
SoloTarget(p) ==
  IF ghost[p].scenario = "merge"
    THEN Graft(TargetBefore(p), <<>>, Stripped(ghost[p].template))
    ELSE Stripped(ghost[p].template)

\* p holds a staging directory.
Staging(p) == ghost[p].acquired > ghost[p].released

\* Neither target lies inside the other.
Apart(p, q) ==
  /\ ~IsPrefix(Loc(Resolved(p)), Loc(Resolved(q)))
  /\ ~IsPrefix(Loc(Resolved(q)), Loc(Resolved(p)))

\* What p is owed when q runs beside it: another staging directory; a
\* staging directory that holds what p's own steps put there; a target
\* that is as it was at p's call until p writes to it; and, once p has
\* returned, the target p leaves when it runs alone.
Undisturbed(p, q) ==
  /\ (Staging(p) /\ Staging(q)) => frame[p].tempDir # frame[q].tempDir
  /\ Staging(p) =>
       Subtree(fs, Loc(frame[p].tempDir)) =
         CASE frame[p].pc \in {"spawn", "cloning"} -> TreeOf(TemplatePool, {})
           [] frame[p].pc = "strip" -> ghost[p].template
           [] frame[p].pc \in {"compare", "copy"} -> Stripped(ghost[p].template)
           [] OTHER -> Subtree(fs, Loc(frame[p].tempDir))
  /\ (\/ frame[p].pc \in {"validate", "inspect", "mkdtemp", "spawn", "cloning",
                          "strip", "compare"}
      \/ Threw(p) /\ frame[p].error.kind
                       \in {"traversal", "ENOTDIR", "notEmpty", "conflict"}) =>
       TargetNow(p) = TargetBefore(p)
  /\ Returned(p) => TargetNow(p) = SoloTarget(p)

C21_NamesReadAfterFetch ==
  \A p \in Procs :
    (ghost[p].scenario = "merge" /\ ghost[p].external # {}) =>
      /\ \A n \in ghost[p].external :
           /\ Loc(Resolved(p)) \o <<n>> \in DOMAIN fs
           /\ fs[Loc(Resolved(p)) \o <<n>>] = ExternalContent
      /\ ghost[p].compared =>
           /\ ghost[p].external \subseteq Range(frame[p].projectFiles)
           /\ \A n \in ghost[p].external \cap ghost[p].stagedNames :
                /\ frame[p].error.kind = "conflict"
                /\ n \in Range(frame[p].error.names)
                /\ Range(ghost[p].trace) \cap {"copy", "copyFailed"} = {}
                /\ ~Returned(p)

C21_Witness ==
  \E p \in Procs :
    /\ ghost[p].scenario = "merge" /\ Threw(p)
    /\ ghost[p].external = {"src"}
    /\ "src" \notin Entries(ghost[p].fs0, Resolved(p))
    /\ frame[p].error.kind = "conflict"
    /\ frame[p].conflictingFiles = <<"src">>

\* The staging directory p acquired is gone (or p acquired none).
NoStagingLeft(p) ==
  frame[p].tempDir # NoPath => ~ExistsSync(fs, frame[p].tempDir)

\* Every invocation ends: it exits with 0 or 1.
EveryRunExits ==
  \A p \in Procs :
    (frame[p].pc = "main") ~> (Exited(p) /\ frame[p].exitCode \in {0, 1})

\* C22 as stated: every invocation ends, exiting with 0 or 1, and once it
\* has ended no staging directory it acquired exists.
C22_TerminatesClean ==
  /\ EveryRunExits
  /\ [](\A p \in Procs : Exited(p) => NoStagingLeft(p))

\* The run on which it fails: the merge has acquired its staging
\* directory, git cannot be started, and the process ends with the
\* directory still there.
C22_StagingLeft ==
  \E p \in Procs :
    /\ Exited(p) /\ frame[p].exitCode = 1
    /\ frame[p].error.kind = "spawn"
    /\ ghost[p].acquired = 1 /\ ghost[p].released = 0
    /\ ExistsSync(fs, frame[p].tempDir)

====
